---- MODULE Spec2Model ----
(***************************************************************************)
(* Model of create_presentation.py: a script that builds a slide deck by   *)
(* calling three render functions against one accumulating presentation,   *)
(* saves it once and prints a completion message.                          *)
(*                                                                         *)
(* Lengths.  The source writes coordinates as inches (floats) and converts *)
(* them with pptx.util.Inches, which is int(inches * 914400) EMU.  The     *)
(* model writes a coordinate in thousandths of an inch and Inches          *)
(* truncates it to EMU the way the float computation does.                 *)
(*                                                                         *)
(* Text.  The bullet glyph of the source (a right guillemet and a space)   *)
(* is written ">> ".  Literal copy of the reference deck is abbreviated.   *)
(* Of a paragraph the model keeps text, font size, colour and              *)
(* space_before; bold, italic, alignment and word_wrap are not modelled.   *)
(***************************************************************************)
EXTENDS Integers, Sequences, FiniteSets, TLC

\* Bounds of the inputs drawn for the render functions.
MaxItems == 2
MaxSections == 4

VARIABLES
    deck,     \* the slide specs the script renders, in call order
    run,      \* "first" or "second" execution of the script on that deck
    pc,       \* where the script is: calls, save, print, done, crashed
    ip,       \* index in deck of the next render call
    prs,      \* the presentation: a sequence of slides, each a sequence of shapes
    saved,    \* per run, the file prs.save wrote
    nsaves,   \* completed prs.save calls of the current run
    stdout    \* lines printed by the current run

vars == <<deck, run, pc, ip, prs, saved, nsaves, stdout>>

----------------------------------------------------------------------------
\* Values of the source

\* Python's None, for an optional string argument.
None == "<None>"

\* Mutants of Truthy: the test dropped; the test written "is not None".
AlwaysTruthy(s) == TRUE
IsNotNone(s) == s # None

\* Python truthiness of an optional string: None and "" are falsy.
Truthy(s) == s # None /\ s # ""

NAVY == "NAVY"
ROYAL_BLUE == "ROYAL_BLUE"
GOLD == "GOLD"
CHARCOAL == "CHARCOAL"
LIGHT_GRAY == "LIGHT_GRAY"
WHITE == "WHITE"
\* RGBColor(200, 200, 200), the border of the light panels
BORDER_GRAY == "RGB(200,200,200)"
\* line.fill.background(): no outline; also the fill of a text box or picture
NoFill == "none"

\* pptx.util.Inches on a float literal, argument in thousandths of an inch.
\* int(x * 914400) truncates the float product: 2.05 * 914400 evaluates to
\* 1874519.9999999998 and truncates to 1874519; for every other argument
\* the script can form, the float result is the truncated exact product.
Inches(m) == IF m = 2050 THEN 1874519 ELSE (m * 9144) \div 10

\* prs.slide_width, prs.slide_height
slide_width == Inches(13333)
slide_height == Inches(7500)

section_width == 3900
section_gap == 300
start_x == 500

\* Mutant of x_pos: the gap left out of the stride.
x_pos_no_gap(i) == start_x + i * section_width

\* x_pos of card i (0-based), in thousandths of an inch
x_pos(i) == start_x + i * (section_width + section_gap)

----------------------------------------------------------------------------
\* The drawing API as the script uses it

\* A paragraph of a text frame.
Para(text, size, color, space) ==
    [text |-> text, size |-> size, color |-> color, space_before |-> space]

\* A new text frame holds one empty paragraph: tf.paragraphs[0] always exists.
EmptyPara == Para("", 0, NoFill, 0)

\* slide.shapes.add_shape(type, left, top, width, height) and the fill and
\* line settings that follow it; `name` is the script's variable.
add_shape(shapes, name, type, l, t, w, h, fill, line) ==
    Append(shapes, [name |-> name, type |-> type, left |-> l, top |-> t,
                    width |-> w, height |-> h, fill |-> fill, line |-> line,
                    paras |-> <<>>])

\* slide.shapes.add_textbox(left, top, width, height), with the paragraphs
\* its text frame ends up holding.
add_textbox(shapes, name, l, t, w, h, paras) ==
    Append(shapes, [name |-> name, type |-> "TEXT_BOX", left |-> l, top |-> t,
                    width |-> w, height |-> h, fill |-> NoFill, line |-> NoFill,
                    paras |-> paras])

\* The picture add_picture places: height given, width scaled from the image
\* file (taken square here; no property below reads a picture's geometry).
Picture(l, t, h) ==
    [name |-> "logo", type |-> "PICTURE", left |-> l, top |-> t,
     width |-> h, height |-> h, fill |-> NoFill, line |-> NoFill,
     paras |-> <<>>]

\* Mutant of TryAddPicture: no except clause, the failure leaves the function.
AddPictureNoExcept(shapes, logo_ok, l, t, h) ==
    IF logo_ok
    THEN [shapes |-> Append(shapes, Picture(l, t, h)), raised |-> FALSE]
    ELSE [shapes |-> shapes, raised |-> TRUE]

\* try: slide.shapes.add_picture(LOGO_PATH, ...)  except: pass
\* logo_ok is whether the image file loads.  The bare except swallows every
\* failure, so nothing is raised and the shapes are left as they were.
TryAddPicture(shapes, logo_ok, l, t, h) ==
    IF logo_ok
    THEN [shapes |-> Append(shapes, Picture(l, t, h)), raised |-> FALSE]
    ELSE [shapes |-> shapes, raised |-> FALSE]

\* Mutant of FillItems: every item gets an added paragraph, the frame's own
\* first paragraph is never reused.
RECURSIVE FillItemsAlwaysAdd(_, _, _, _, _, _, _)
FillItemsAlwaysAdd(paras, items, j, prefix, size, color, space) ==
    IF j >= Len(items) THEN paras
    ELSE FillItemsAlwaysAdd(
             Append(paras, Para(prefix \o items[j + 1], size, color,
                                IF j > 0 THEN space ELSE 0)),
             items, j + 1, prefix, size, color, space)

\* Mutant of FillItems: add_paragraph forgotten, every item overwrites
\* paragraph 0.
RECURSIVE FillItemsOverwrite(_, _, _, _, _, _, _)
FillItemsOverwrite(paras, items, j, prefix, size, color, space) ==
    IF j >= Len(items) THEN paras
    ELSE FillItemsOverwrite(
             [paras EXCEPT ![1] = Para(prefix \o items[j + 1], size, color,
                                       IF j > 0 THEN space ELSE 0)],
             items, j + 1, prefix, size, color, space)

\* The item loop: for j, item in enumerate(items): paragraph 0 is the text
\* frame's own, every later one is added.  j is 0-based.
RECURSIVE FillItems(_, _, _, _, _, _, _)
FillItems(paras, items, j, prefix, size, color, space) ==
    IF j >= Len(items) THEN paras
    ELSE LET p == Para(prefix \o items[j + 1], size, color,
                       IF j > 0 THEN space ELSE 0)
         IN  FillItems(IF j = 0 THEN [paras EXCEPT ![1] = p]
                                ELSE Append(paras, p),
                       items, j + 1, prefix, size, color, space)

\* Mutant of add_slide: the slide is put first.
add_slide_front(p, slide) == <<slide>> \o p

\* prs.slides.add_slide(blank_layout): the slide goes to the end.
add_slide(p, slide) == Append(p, slide)

----------------------------------------------------------------------------
\* The three render functions.  Each returns the presentation with the new
\* slide appended and whether an exception left the function.

TitleShapes(title, subtitle, tagline, logo_ok) ==
    LET bg == add_shape(<<>>, "bg", "RECTANGLE", 0, 0,
                        Inches(13333), Inches(7500), NAVY, NoFill)
        accent == add_shape(bg, "accent", "RECTANGLE", 0, 0,
                            Inches(13333), Inches(150), GOLD, NoFill)
        logo == TryAddPicture(accent, logo_ok,
                              Inches(10500), Inches(400), Inches(800))
    IN  IF logo.raised THEN logo
        ELSE
        LET title_box == add_textbox(logo.shapes, "title_box",
                             Inches(800), Inches(2200), Inches(11733), Inches(1800),
                             <<Para(title, 54, WHITE, 0)>>)
            sub_box == add_textbox(title_box, "sub_box",
                             Inches(800), Inches(4000), Inches(11733), Inches(800),
                             <<Para(subtitle, 22, GOLD, 0)>>)
            bottom == add_shape(sub_box, "bottom", "RECTANGLE", 0, Inches(6800),
                             Inches(13333), Inches(700), ROYAL_BLUE, NoFill)
        IN  [shapes |-> IF Truthy(tagline)
                        THEN add_textbox(bottom, "tag_box",
                                 Inches(800), Inches(6900), Inches(11733), Inches(500),
                                 <<Para(tagline, 16, WHITE, 0)>>)
                        ELSE bottom,
             raised |-> FALSE]

add_title_slide(p, title, subtitle, tagline, logo_ok) ==
    LET r == TitleShapes(title, subtitle, tagline, logo_ok)
    IN  [prs |-> add_slide(p, r.shapes), raised |-> r.raised]

\* The header band both content layouts start with: header, gold_line, logo.
HeaderBand(logo_ok) ==
    LET header == add_shape(<<>>, "header", "RECTANGLE", 0, 0,
                            Inches(13333), Inches(1500), NAVY, NoFill)
        gold_line == add_shape(header, "gold_line", "RECTANGLE", 0, Inches(1500),
                            Inches(13333), Inches(60), GOLD, NoFill)
    IN  TryAddPicture(gold_line, logo_ok, Inches(11500), Inches(350), Inches(700))

TwoColumnShapes(title, left_title, left_items, right_title, right_items, logo_ok) ==
    LET logo == HeaderBand(logo_ok)
    IN  IF logo.raised THEN logo
        ELSE
        LET title_box == add_textbox(logo.shapes, "title_box",
                             Inches(600), Inches(400), Inches(10500), Inches(900),
                             <<Para(title, 30, WHITE, 0)>>)
            left_box == add_shape(title_box, "left_box", "ROUNDED_RECTANGLE",
                             Inches(500), Inches(1900), Inches(5900), Inches(5000),
                             LIGHT_GRAY, BORDER_GRAY)
            left_header == add_textbox(left_box, "left_header",
                             Inches(700), Inches(2100), Inches(5500), Inches(500),
                             <<Para(left_title, 20, NAVY, 0)>>)
            left_content == add_textbox(left_header, "left_content",
                             Inches(700), Inches(2700), Inches(5500), Inches(4000),
                             FillItems(<<EmptyPara>>, left_items, 0, "", 14, CHARCOAL, 10))
            right_box == add_shape(left_content, "right_box", "ROUNDED_RECTANGLE",
                             Inches(6900), Inches(1900), Inches(5900), Inches(5000),
                             NAVY, NoFill)
            right_header == add_textbox(right_box, "right_header",
                             Inches(7100), Inches(2100), Inches(5500), Inches(500),
                             <<Para(right_title, 20, GOLD, 0)>>)
            right_content == add_textbox(right_header, "right_content",
                             Inches(7100), Inches(2700), Inches(5500), Inches(4000),
                             FillItems(<<EmptyPara>>, right_items, 0, "", 14, WHITE, 10))
        IN  [shapes |-> right_content, raised |-> FALSE]

add_two_column_slide(p, title, left_title, left_items, right_title, right_items, logo_ok) ==
    LET r == TwoColumnShapes(title, left_title, left_items, right_title,
                             right_items, logo_ok)
    IN  [prs |-> add_slide(p, r.shapes), raised |-> r.raised]

\* The card loop: for i, section in enumerate(sections).  i is 0-based.  A
\* section is a dict; section['header'] and section['items'] raise KeyError
\* when the key is missing, after the shapes placed before that line.
RECURSIVE Cards(_, _, _)
Cards(shapes, sections, i) ==
    IF i >= Len(sections) THEN [shapes |-> shapes, raised |-> FALSE]
    ELSE
    LET section == sections[i + 1]
        x == x_pos(i)
        box == add_shape(shapes, "box", "ROUNDED_RECTANGLE",
                   Inches(x), Inches(1850), Inches(section_width), Inches(5300),
                   LIGHT_GRAY, BORDER_GRAY)
        circle == add_shape(box, "circle", "OVAL",
                   Inches(x + 150), Inches(2000), Inches(450), Inches(450),
                   ROYAL_BLUE, NoFill)
        num_box == add_textbox(circle, "num_box",
                   Inches(x + 150), Inches(2050), Inches(450), Inches(400),
                   <<Para(ToString(i + 1), 18, WHITE, 0)>>)
    IN  IF "header" \notin DOMAIN section
        THEN [shapes |-> add_textbox(num_box, "header_box",
                             Inches(x + 700), Inches(2000),
                             Inches(section_width - 900), Inches(600),
                             <<EmptyPara>>),
              raised |-> TRUE]
        ELSE
        LET header_box == add_textbox(num_box, "header_box",
                             Inches(x + 700), Inches(2000),
                             Inches(section_width - 900), Inches(600),
                             <<Para(section.header, 15, NAVY, 0)>>)
        IN  IF "items" \notin DOMAIN section
            THEN [shapes |-> add_textbox(header_box, "items_box",
                                 Inches(x + 200), Inches(2650),
                                 Inches(section_width - 400), Inches(4300),
                                 <<EmptyPara>>),
                  raised |-> TRUE]
            ELSE Cards(add_textbox(header_box, "items_box",
                           Inches(x + 200), Inches(2650),
                           Inches(section_width - 400), Inches(4300),
                           FillItems(<<EmptyPara>>, section.items, 0, ">> ",
                                     12, CHARCOAL, 8)),
                       sections, i + 1)

SectionsShapes(title, sections, personalized_for, logo_ok) ==
    LET logo == HeaderBand(logo_ok)
    IN  IF logo.raised THEN logo
        ELSE
        LET pers_box == IF Truthy(personalized_for)
                        THEN add_textbox(logo.shapes, "pers_box",
                                 Inches(600), Inches(1100), Inches(10000), Inches(300),
                                 <<Para(personalized_for, 12, GOLD, 0)>>)
                        ELSE logo.shapes
            title_box == add_textbox(pers_box, "title_box",
                                 Inches(600), Inches(400), Inches(10500), Inches(900),
                                 <<Para(title, 30, WHITE, 0)>>)
        IN  Cards(title_box, sections, 0)

add_content_slide_with_sections(p, title, sections, personalized_for, logo_ok) ==
    LET r == SectionsShapes(title, sections, personalized_for, logo_ok)
    IN  [prs |-> add_slide(p, r.shapes), raised |-> r.raised]

----------------------------------------------------------------------------
\* Inputs

\* An item list of n distinct strings.
ItemList(n) == [k \in 1..n |-> "item" \o ToString(k)]

ItemLists == {ItemList(n) : n \in 0..MaxItems}

\* Well-formed section dicts, and dicts lacking one of the two keys.
GoodSections == {[header |-> "H" \o ToString(n), items |-> ItemList(n)] : n \in 0..MaxItems}
NoHeaderSection == [items |-> ItemList(1)]
NoItemsSection == [header |-> "H"]
BadSections == {NoHeaderSection, NoItemsSection}

SeqsUpTo(S, n) == UNION {[1..k -> S] : k \in 0..n}

\* Section lists: every well-formed list, and every list whose first
\* malformed dict is its last element (the loop never reads past the first
\* malformed dict, so what would follow it cannot matter).
SectionLists ==
    SeqsUpTo(GoodSections, MaxSections)
    \cup {Append(w, b) : w \in SeqsUpTo(GoodSections, MaxSections - 1), b \in BadSections}

OptionalStrings(s) == {None, "", s}

TitleSpec(title, subtitle, tagline) ==
    [kind |-> "title", title |-> title, subtitle |-> subtitle, tagline |-> tagline]
TwoColumnSpec(title, left_title, left_items, right_title, right_items) ==
    [kind |-> "two_column", title |-> title,
     left_title |-> left_title, left_items |-> left_items,
     right_title |-> right_title, right_items |-> right_items]
SectionsSpec(title, sections, personalized_for) ==
    [kind |-> "sections", title |-> title, sections |-> sections,
     personalized_for |-> personalized_for]

SlideSpecs ==
    {TitleSpec("A", "B", t) : t \in OptionalStrings("tag")}
    \cup {TwoColumnSpec("T", "L", l, "R", r) : l \in ItemLists, r \in ItemLists}
    \cup {SectionsSpec("T", s, p) : s \in SectionLists, p \in OptionalStrings("pers")}

\* The four calls of the script, their literal copy abbreviated: five items
\* a column, three sections of four items.
RefSections == [i \in 1..3 |-> [header |-> "Header" \o ToString(i), items |-> ItemList(4)]]
RefDeck ==
    << TitleSpec("Accelerating Growth", "Distribution Strategy", "Panagora Asset Management"),
       TwoColumnSpec("The Quantitative Investing Landscape", "MARKET DYNAMICS", ItemList(5),
                     "PANAGORA DIFFERENTIATORS", ItemList(5)),
       SectionsSpec("AI-Era Distribution", RefSections, "Created for Discussion"),
       SectionsSpec("Generating Buzz", RefSections, None) >>

\* The script's deck, the script with malformed content in its third call,
\* and every single call.
Decks ==
    {RefDeck}
    \cup {[RefDeck EXCEPT ![3] = SectionsSpec("AI-Era Distribution", <<RefSections[1], b>>, None)]
            : b \in BadSections}
    \cup {<<s>> : s \in SlideSpecs}

IsMalformed(spec) ==
    /\ spec.kind = "sections"
    /\ \E i \in DOMAIN spec.sections : DOMAIN spec.sections[i] # {"header", "items"}

----------------------------------------------------------------------------
\* The script

\* prs = Presentation(): no slides (lines 7-9 also set the canvas size).
Presentation == <<>>

NoFile == [exists |-> FALSE, slides |-> <<>>]

Init ==
    /\ deck \in Decks
    /\ run = "first"
    /\ pc = "calls"
    /\ ip = 1
    /\ prs = Presentation
    /\ saved = [first |-> NoFile, second |-> NoFile]
    /\ nsaves = 0
    /\ stdout = <<>>

\* Mutant of AfterCall: the exception is swallowed and the script goes on.
AfterCallSwallowed(raised) ==
    IF ip = Len(deck) THEN "save" ELSE "calls"

\* Nothing in the script catches: an exception leaving a call ends the run.
AfterCall(raised) ==
    IF raised THEN "crashed"
    ELSE IF ip = Len(deck) THEN "save" ELSE "calls"

Returned(r) ==
    /\ prs' = r.prs
    /\ pc' = AfterCall(r.raised)
    /\ ip' = IF r.raised THEN ip ELSE ip + 1
    /\ UNCHANGED <<deck, run, saved, nsaves, stdout>>

CallTitle ==
    /\ pc = "calls"
    /\ deck[ip].kind = "title"
    /\ \E logo_ok \in BOOLEAN :
         Returned(add_title_slide(prs, deck[ip].title, deck[ip].subtitle,
                                  deck[ip].tagline, logo_ok))

CallTwoColumn ==
    /\ pc = "calls"
    /\ deck[ip].kind = "two_column"
    /\ \E logo_ok \in BOOLEAN :
         Returned(add_two_column_slide(prs, deck[ip].title,
                                       deck[ip].left_title, deck[ip].left_items,
                                       deck[ip].right_title, deck[ip].right_items,
                                       logo_ok))

CallSections ==
    /\ pc = "calls"
    /\ deck[ip].kind = "sections"
    /\ \E logo_ok \in BOOLEAN :
         Returned(add_content_slide_with_sections(prs, deck[ip].title,
                                                  deck[ip].sections,
                                                  deck[ip].personalized_for,
                                                  logo_ok))

\* prs.save(path): writes the file, or raises (the path cannot be written).
Save ==
    /\ pc = "save"
    /\ \E ok \in BOOLEAN :
         IF ok
         THEN /\ saved' = [saved EXCEPT ![run] = [exists |-> TRUE, slides |-> prs]]
              /\ nsaves' = nsaves + 1
              /\ pc' = "print"
         ELSE /\ pc' = "crashed"
              /\ UNCHANGED <<saved, nsaves>>
    /\ UNCHANGED <<deck, run, ip, prs, stdout>>

\* print("Done!")
PrintDone ==
    /\ pc = "print"
    /\ stdout' = Append(stdout, "Done!")
    /\ pc' = "done"
    /\ UNCHANGED <<deck, run, ip, prs, saved, nsaves>>

\* Mutant of Restart: the second run goes on with the presentation of the
\* first instead of a new one.
RestartStale ==
    /\ pc = "done"
    /\ run = "first"
    /\ run' = "second"
    /\ pc' = "calls"
    /\ ip' = 1
    /\ nsaves' = 0
    /\ stdout' = <<>>
    /\ UNCHANGED <<deck, saved, prs>>

\* The script is run again on the same deck: a new process, a new
\* Presentation(); the file of the first run stays on record.
Restart ==
    /\ pc = "done"
    /\ run = "first"
    /\ run' = "second"
    /\ pc' = "calls"
    /\ ip' = 1
    /\ prs' = Presentation
    /\ nsaves' = 0
    /\ stdout' = <<>>
    /\ UNCHANGED <<deck, saved>>

Next ==
    \/ CallTitle
    \/ CallTwoColumn
    \/ CallSections
    \/ Save
    \/ PrintDone
    \/ Restart

Spec == Init /\ [][Next]_vars

----------------------------------------------------------------------------
\* Reading a rendered slide

Max(a, b) == IF a >= b THEN a ELSE b

OfType(slide, type) == SelectSeq(slide, LAMBDA s : s.type = type)
Named(slide, name) == SelectSeq(slide, LAMBDA s : s.name = name)
Without(slide, name) == SelectSeq(slide, LAMBDA s : s.name # name)
NonPicture(slide) == SelectSeq(slide, LAMBDA s : s.type # "PICTURE")
HasPicture(slide) == \E i \in DOMAIN slide : slide[i].type = "PICTURE"
Names(slide) == [i \in DOMAIN slide |-> slide[i].name]
Texts(paras) == [i \in DOMAIN paras |-> paras[i].text]

\* The index in slide of its only shape of that name.
IndexOf(slide, name) == CHOOSE i \in DOMAIN slide : slide[i].name = name

\* The calls of the current run that returned: slide k of prs is theirs.
CallReturned(k) == k \in 1..Len(prs) /\ k < ip /\ k \in DOMAIN deck
ReturnedOfKind(kind) == {k \in 1..Len(prs) : CallReturned(k) /\ deck[k].kind = kind}

\* The shapes of a slide that lie inside the panel b.
Inside(slide, b) ==
    SelectSeq(slide, LAMBDA s : /\ s.left >= b.left
                                /\ s.top >= b.top
                                /\ s.left + s.width <= b.left + b.width
                                /\ s.top + s.height <= b.top + b.height)

\* Card i of a sections slide: what lies inside its i-th rounded rectangle.
Card(slide, i) == Inside(slide, OfType(slide, "ROUNDED_RECTANGLE")[i])

\* The shapes a slide spec renders to, the logo loading or not.
RenderShapes(spec, logo_ok) ==
    CASE spec.kind = "title" ->
           TitleShapes(spec.title, spec.subtitle, spec.tagline, logo_ok).shapes
      [] spec.kind = "two_column" ->
           TwoColumnShapes(spec.title, spec.left_title, spec.left_items,
                           spec.right_title, spec.right_items, logo_ok).shapes
      [] spec.kind = "sections" ->
           SectionsShapes(spec.title, spec.sections, spec.personalized_for,
                          logo_ok).shapes

----------------------------------------------------------------------------
\* C1: cards of a sections slide

\* Card i of the slide has one panel, one oval badge, one badge number, one
\* header text box and one item text box of `count` paragraphs.
CardHas(slide, i, count) ==
    LET c == Card(slide, i)
    IN  /\ Len(OfType(c, "ROUNDED_RECTANGLE")) = 1
        /\ Len(OfType(c, "OVAL")) = 1
        /\ Len(Named(c, "num_box")) = 1
        /\ Len(Named(c, "header_box")) = 1
        /\ Len(Named(c, "items_box")) = 1
        /\ Len(c) = 5
        /\ Len(Named(c, "items_box")[1].paras) = count

\* The shape counts of a sections slide of N cards.
CardCounts(slide, N) ==
    /\ Len(OfType(slide, "ROUNDED_RECTANGLE")) = N
    /\ Len(OfType(slide, "OVAL")) = N
    /\ Len(Named(slide, "header_box")) = N
    /\ Len(Named(slide, "items_box")) = N

\* C1 as stated: a sections slide of N sections has exactly N cards, each
\* with exactly one panel, one badge, one header text box and an item text
\* box of exactly len(items) paragraphs, the empty item list included.
C1_ItemBoxHoldsLenItemsParagraphs ==
    \A k \in ReturnedOfKind("sections") :
        /\ CardCounts(prs[k], Len(deck[k].sections))
        /\ \A i \in DOMAIN deck[k].sections :
               CardHas(prs[k], i, Len(deck[k].sections[i].items))

\* C1 amended: as above, but the item text box holds max(1, len(items))
\* paragraphs: one bullet paragraph per item in input order, and for an empty
\* item list the single empty paragraph every text frame starts with.
C1_CardsAndParagraphs ==
    \A k \in ReturnedOfKind("sections") :
        /\ CardCounts(prs[k], Len(deck[k].sections))
        /\ \A i \in DOMAIN deck[k].sections :
               LET items == deck[k].sections[i].items
                   paras == Named(Card(prs[k], i), "items_box")[1].paras
               IN  /\ CardHas(prs[k], i, Max(1, Len(items)))
                   /\ IF items = <<>>
                      THEN Texts(paras) = <<"">>
                      ELSE Texts(paras) = [j \in DOMAIN items |-> ">> " \o items[j]]

\* A returned sections call of at least three sections, among them one with
\* no items and one with two.
C1_Witness ==
    \E k \in ReturnedOfKind("sections") :
        /\ Len(deck[k].sections) >= 3
        /\ \E i, j \in DOMAIN deck[k].sections :
               /\ deck[k].sections[i].items = <<>>
               /\ Len(deck[k].sections[j].items) = 2

----------------------------------------------------------------------------
\* C2: the title slide without tagline

NoTagline == {k \in ReturnedOfKind("title") : deck[k].tagline = None}

\* C2 as stated: add_title_slide without tagline yields a slide of exactly 4
\* shapes, with no tagline and no personalization text box.
C2_TitleSlideHasFourShapes ==
    \A k \in NoTagline :
        /\ Len(prs[k]) = 4
        /\ Named(prs[k], "tag_box") = <<>>
        /\ Named(prs[k], "pers_box") = <<>>

\* C2 amended: the slide has exactly 5 shapes besides the logo picture (three
\* rectangles: background, accent bar, bottom bar; two text boxes: title and
\* subtitle), 6 with the logo, and no tagline or personalization text box.
C2_TitleSlideHasFiveShapes ==
    \A k \in NoTagline :
        /\ Names(NonPicture(prs[k])) = <<"bg", "accent", "title_box", "sub_box", "bottom">>
        /\ Len(OfType(prs[k], "RECTANGLE")) = 3
        /\ Len(OfType(prs[k], "TEXT_BOX")) = 2
        /\ Len(prs[k]) = IF HasPicture(prs[k]) THEN 6 ELSE 5
        /\ Named(prs[k], "tag_box") = <<>>
        /\ Named(prs[k], "pers_box") = <<>>

\* A title slide rendered without tagline whose logo failed to load.
C2_Witness == \E k \in NoTagline : ~HasPicture(prs[k])

----------------------------------------------------------------------------
\* C3: the logo failing

\* C3: a logo failure never leaves a render function (a call that raised was
\* given a malformed section list, and every call on well-formed content
\* returned), and a slide rendered without the logo has the shapes of the same
\* slide rendered with it, the picture apart: same count, geometry and order.
\* The second run of the script renders the deck of the first, the logo
\* loading or failing independently of the first.
C3_LogoFailureSwallowed ==
    /\ (pc = "crashed" /\ ip <= Len(deck)) => IsMalformed(deck[ip])
    /\ \A k \in 1..Len(prs) :
           (k \in DOMAIN deck /\ ~IsMalformed(deck[k])) => k < ip
    /\ run = "second" =>
           \A k \in 1..Len(prs) :
               CallReturned(k) =>
                   NonPicture(prs[k]) = NonPicture(saved.first.slides[k])

\* The second run rendered without logo a slide the first rendered with it.
C3_Witness ==
    /\ run = "second"
    /\ \E k \in 1..Len(prs) :
           /\ CallReturned(k)
           /\ ~HasPicture(prs[k])
           /\ HasPicture(saved.first.slides[k])

----------------------------------------------------------------------------
\* C4: the canvas

WithinCanvas(s) ==
    /\ s.left >= 0
    /\ s.top >= 0
    /\ s.left + s.width <= slide_width
    /\ s.top + s.height <= slide_height

\* C4: on every slide a render function produced, for any inputs, every shape
\* and text box other than the picture lies entirely within the canvas.
C4_AllShapesWithinCanvas ==
    \A k \in 1..Len(prs) :
        CallReturned(k) =>
        \A i \in DOMAIN prs[k] :
            prs[k][i].type # "PICTURE" => WithinCanvas(prs[k][i])

----------------------------------------------------------------------------
\* C5: card offsets and badge numbers

\* C5: the i-th section (in input order) is the card at x offset
\* start_x + i * (section_width + section_gap), i 0-based, with badge number
\* i + 1: offsets increase strictly, by section_width + section_gap between
\* neighbours, and the badges read 1, 2, ..., N from left to right.
C5_CardOffsetsAndBadges ==
    \A k \in ReturnedOfKind("sections") :
        LET boxes == OfType(prs[k], "ROUNDED_RECTANGLE")
            N == Len(deck[k].sections)
        IN  /\ Len(boxes) = N
            /\ \A i \in 1..N :
                   LET c == Card(prs[k], i)
                   IN  /\ boxes[i].left = Inches(start_x + (i - 1) * (section_width + section_gap))
                       /\ Texts(Named(c, "num_box")[1].paras) = <<ToString(i)>>
                       /\ Texts(Named(c, "header_box")[1].paras)
                              = <<deck[k].sections[i].header>>
                       /\ Named(c, "num_box")[1].left = Named(c, "circle")[1].left
            /\ \A i \in 1..(N - 1) :
                   /\ boxes[i + 1].left > boxes[i].left
                   /\ boxes[i + 1].left - boxes[i].left
                          = Inches(section_width + section_gap)

\* A returned sections call of three sections with different headers.
C5_Witness ==
    \E k \in ReturnedOfKind("sections") :
        /\ Len(deck[k].sections) = 3
        /\ deck[k].sections[1].header # deck[k].sections[2].header

----------------------------------------------------------------------------
\* C6: the two columns

ContentBox(slide, name) == Named(slide, name)[1]

\* C6 as stated: the left content box holds exactly len(left_items)
\* paragraphs and the right one exactly len(right_items), one per item in
\* input order, and the two panels' fill colours differ.
C6_ColumnHoldsLenItemsParagraphs ==
    \A k \in ReturnedOfKind("two_column") :
        /\ Texts(ContentBox(prs[k], "left_content").paras) = deck[k].left_items
        /\ Texts(ContentBox(prs[k], "right_content").paras) = deck[k].right_items
        /\ ContentBox(prs[k], "left_box").fill # ContentBox(prs[k], "right_box").fill

\* The paragraphs a content box holds for an item list.
ColumnTexts(items) == IF items = <<>> THEN <<"">> ELSE items

\* C6 amended: each content box holds max(1, len(items)) paragraphs: one per
\* item in input order, and for an empty list the single empty paragraph
\* every text frame starts with; the two panels' fill colours differ.
C6_ColumnParagraphs ==
    \A k \in ReturnedOfKind("two_column") :
        /\ Texts(ContentBox(prs[k], "left_content").paras) = ColumnTexts(deck[k].left_items)
        /\ Texts(ContentBox(prs[k], "right_content").paras) = ColumnTexts(deck[k].right_items)
        /\ Len(ContentBox(prs[k], "left_content").paras) = Max(1, Len(deck[k].left_items))
        /\ Len(ContentBox(prs[k], "right_content").paras) = Max(1, Len(deck[k].right_items))
        /\ ContentBox(prs[k], "left_box").fill # ContentBox(prs[k], "right_box").fill

\* A returned two-column call with two items on the left and none on the
\* right.
C6_Witness ==
    \E k \in ReturnedOfKind("two_column") :
        /\ Len(deck[k].left_items) = 2
        /\ deck[k].right_items = <<>>

----------------------------------------------------------------------------
\* C7: slides accumulate in call order and the file is written once

\* Within a run, a step that changes the presentation or moves to the next
\* call appends exactly one slide and leaves the earlier slides as they were.
AppendsOneSlide ==
    (run' = run /\ (prs' # prs \/ ip' # ip)) =>
        /\ Len(prs') = Len(prs) + 1
        /\ SubSeq(prs', 1, Len(prs)) = prs

\* The file is written at most once a run, after the last render call, and
\* holds the slides of the deck's specs in call order.
SavedOnceInCallOrder ==
    /\ nsaves <= 1
    /\ nsaves = 1 <=> pc \in {"print", "done"}
    /\ saved[run].exists <=> nsaves = 1
    /\ nsaves = 1 =>
           /\ ip = Len(deck) + 1
           /\ saved[run].slides = prs
           /\ Len(prs) = Len(deck)
           /\ \A k \in DOMAIN deck :
                  \E logo_ok \in BOOLEAN : prs[k] = RenderShapes(deck[k], logo_ok)
           /\ deck = RefDeck =>
                  /\ Len(saved[run].slides) = 4
                  /\ Names(prs[1])[1] = "bg"
                  /\ Named(prs[2], "left_box") # <<>>
                  /\ Named(prs[3], "pers_box") # <<>>
                  /\ Named(prs[3], "items_box") # <<>>
                  /\ Named(prs[4], "pers_box") = <<>>
                  /\ Named(prs[4], "items_box") # <<>>

\* C7: every render call appends exactly one slide at the end and never
\* removes, reorders or modifies an earlier slide; the presentation is saved
\* exactly once, after the last render call, and the file holds the rendered
\* slides in call order (title, two-column, sections, sections for the script).
C7_AppendInOrderSaveOnce == [][AppendsOneSlide]_vars /\ []SavedOnceInCallOrder

\* The script's own four calls done and the file written.
C7_Witness ==
    /\ pc = "done"
    /\ deck = RefDeck
    /\ saved[run].exists
    /\ Len(saved[run].slides) = 4

----------------------------------------------------------------------------
\* C8: two runs on the same deck

BothSaved == saved.first.exists /\ saved.second.exists

\* Which slides of a file carry the logo picture.
PictureMask(slides) == [k \in DOMAIN slides |-> HasPicture(slides[k])]

----------------------------------------------------------------------------
\* C9: failures other than the logo's end the run

\* C9: a failure other than the logo's is not caught and ends the run: a
\* call given a malformed section list is the last call of its run, nothing
\* is saved or printed after it, and nothing is printed after a failed save;
\* "Done!" is printed only after every render call and the save succeeded.
C9_OtherFailuresAreFatal ==
    /\ \A k \in 1..Len(prs) :
           (k \in DOMAIN deck /\ IsMalformed(deck[k])) =>
               /\ pc = "crashed"
               /\ ip = k
               /\ Len(prs) = k
               /\ stdout = <<>>
               /\ ~saved[run].exists
    /\ pc = "crashed" =>
           /\ stdout = <<>>
           /\ ~saved[run].exists
           /\ nsaves = 0
    /\ stdout # <<>> =>
           /\ stdout = <<"Done!">>
           /\ pc = "done"
           /\ ip = Len(deck) + 1
           /\ Len(prs) = Len(deck)
           /\ \A k \in DOMAIN deck : ~IsMalformed(deck[k])
           /\ saved[run].exists
           /\ saved[run].slides = prs

\* The script crashed in its third call, on malformed content: the fourth
\* call never ran.
C9_Witness ==
    /\ pc = "crashed"
    /\ Len(deck) = 4
    /\ IsMalformed(deck[3])
    /\ Len(prs) = 3

----------------------------------------------------------------------------
\* C10: the optional text boxes

\* The slide has the optional box `name` exactly when `present`; if it has,
\* the box comes right after the shape `before` (and last if `last`); and the
\* slide without the box is the slide `bare` rendered without the argument.
OptionalBox(slide, name, present, before, last, bare) ==
    /\ Len(Named(slide, name)) = IF present THEN 1 ELSE 0
    /\ present =>
           LET at == IndexOf(slide, name)
           IN  /\ at > 1
               /\ slide[at - 1].name = before
               /\ last => at = Len(slide)
               /\ ~last => (at < Len(slide) /\ slide[at + 1].name = "title_box")
    /\ Without(slide, name) = bare

\* C10: the tagline text box is on the title slide iff tagline is truthy and
\* the personalization text box on the sections slide iff personalized_for is
\* (None and "" are absent); present or absent, the other shapes are the same
\* in count, position, size and order; the tagline comes after the bottom
\* bar, the personalization box before the title box.
C10_OptionalBoxes ==
    /\ \A k \in ReturnedOfKind("title") :
           OptionalBox(prs[k], "tag_box", deck[k].tagline \notin {None, ""},
                       "bottom", TRUE,
                       RenderShapes([deck[k] EXCEPT !.tagline = None],
                                    HasPicture(prs[k])))
    /\ \A k \in ReturnedOfKind("sections") :
           OptionalBox(prs[k], "pers_box", deck[k].personalized_for \notin {None, ""},
                       IF HasPicture(prs[k]) THEN "logo" ELSE "gold_line", FALSE,
                       RenderShapes([deck[k] EXCEPT !.personalized_for = None],
                                    HasPicture(prs[k])))

\* A sections slide rendered for the empty string as personalized_for, and
\* with cards.
C10_Witness ==
    \E k \in ReturnedOfKind("sections") :
        /\ deck[k].personalized_for = ""
        /\ Len(deck[k].sections) >= 2

====
